---------------------------- MODULE Spec2Model ----------------------------
(* Model of the automation script noxfile.py of django-girls-tutorial:     *)
(* the sessions lint, export, tests and migrate, the per-app migration     *)
(* helper _do_migration, and the session runner that drives them.          *)
EXTENDS Integers, Sequences, FiniteSets, TLC

VARIABLES
    DEFAULT_PYTHON, \* "<major>.<minor>" of the running interpreter
    disk,           \* the lint paths that exist on disk
    phase,          \* "init", "running", "done", "aborted", "helper"
    noArgs,         \* TRUE when the entry point was started with no session name
    names,          \* the session names the run was asked to execute
    queue,          \* session invocations still to run
    cur,            \* the invocation whose body is executing
    ctx,            \* number of the current session-execution context
    pc,             \* position in the executing body
    idx,            \* loop index of run_linter over LINT_PATHS
    calls,          \* session.install / session.run calls issued, in order
    logs,           \* records written to the logger, in order
    results,        \* outcome of every finished invocation, in order
    exitCode,       \* process exit status, -1 while running
    app_name,       \* argument of the executing _do_migration call
    ret,            \* return value of the last _do_migration call
    ncalls          \* number of _do_migration calls made

vars == <<DEFAULT_PYTHON, disk, phase, noArgs, names, queue, cur, ctx, pc, idx,
          calls, logs, results, exitCode, app_name, ret, ncalls>>

(***************************************************************************)
(* Bounds of the model                                                     *)
(***************************************************************************)
MaxSelected == 1      \* longest explicit list of session names on the CLI
MaxHelperCalls == 3   \* _do_migration calls made on one context

(***************************************************************************)
(* Module-level declarations of noxfile.py                                 *)
(***************************************************************************)
DefaultSessions == <<"lint", "export", "tests", "mysite">>
PY_VERSIONS == <<"3.12", "3.11">>
HostVersions == {"3.12", "3.13"}
PDM_VER == "2.15.4"
LINT_PATHS == <<"src", "tests">>
AppNames == {"blog", "polls"}

NoParam == "none"
NoInv == [name |-> "none", python |-> "none", pdm_ver |-> NoParam, body |-> "none"]
Outcomes == {"ok", "failed"}

Range(s) == {s[i] : i \in 1..Len(s)}

(***************************************************************************)
(* Session registry: one entry per @nox.session declaration                *)
(***************************************************************************)
TestsPython_default == <<DEFAULT_PYTHON>>
TestsPython == PY_VERSIONS

ExportParams == <<PDM_VER>>

Registry ==
    << [name |-> "lint", python |-> <<DEFAULT_PYTHON>>, params |-> <<>>,
        body |-> "run_linter"],
       [name |-> "export", python |-> <<DEFAULT_PYTHON>>, params |-> ExportParams,
        body |-> "export_requirements"],
       [name |-> "tests", python |-> TestsPython, params |-> <<PDM_VER>>,
        body |-> "run_tests"],
       [name |-> "migrate", python |-> <<DEFAULT_PYTHON>>, params |-> <<>>,
        body |-> "do_all_migrations"] >>

RegisteredNames == {Registry[i].name : i \in 1..Len(Registry)}

Resolve(name) == CHOOSE s \in Range(Registry) : s.name = name

\* one invocation per (python, parameter value); one per python when the
\* session declares no parameter
Expand(s) ==
    LET np == IF Len(s.params) = 0 THEN 1 ELSE Len(s.params)
    IN  [k \in 1..(Len(s.python) * np) |->
           [name |-> s.name,
            python |-> s.python[((k - 1) \div np) + 1],
            pdm_ver |-> IF Len(s.params) = 0 THEN NoParam
                        ELSE s.params[((k - 1) % np) + 1],
            body |-> s.body]]

RECURSIVE ExpandAll(_)
ExpandAll(ns) ==
    IF ns = <<>> THEN <<>>
    ELSE Expand(Resolve(Head(ns))) \o ExpandAll(Tail(ns))

(***************************************************************************)
(* Calls and log records                                                   *)
(***************************************************************************)
Call(kind, args, outcome) ==
    [ctx |-> ctx, kind |-> kind, args |-> args, outcome |-> outcome]
Log(level, msg) == [ctx |-> ctx, level |-> level, msg |-> msg]

\* session.install is outside every try block: a failure leaves the body
AfterInstall_swallow(outcome, next) == next
AfterInstall(outcome, next) == IF outcome = "ok" THEN next ELSE "raise"

\* session.run outside a try block: a failing command leaves the body
AfterRun_swallow(outcome, next) == next
AfterRun(outcome, next) == IF outcome = "ok" THEN next ELSE "raise"

\* session.run inside try/except Exception whose handler logs and returns
AfterTryRun_reraise(outcome, next) == IF outcome = "ok" THEN next ELSE "raise"
AfterTryRun_fallthrough(outcome, next) == next
AfterTryRun(outcome, next) == IF outcome = "ok" THEN next ELSE "return"

\* Path(d).exists()
PathExists_always(d) == TRUE
PathExists(d) == d \in disk

HelperVars == <<app_name, ret, ncalls>>
HostVars == <<DEFAULT_PYTHON, disk>>
RunnerVars == <<phase, noArgs, names, queue, cur, ctx, results, exitCode>>

Init ==
    /\ DEFAULT_PYTHON \in HostVersions
    /\ disk \in SUBSET Range(LINT_PATHS)
    /\ phase = "init"
    /\ noArgs = FALSE
    /\ names = <<>>
    /\ queue = <<>>
    /\ cur = NoInv
    /\ ctx = 0
    /\ pc = "idle"
    /\ idx = 1
    /\ calls = <<>>
    /\ logs = <<>>
    /\ results = <<>>
    /\ exitCode = -1
    /\ app_name = "none"
    /\ ret = "none"
    /\ ncalls = 0

(***************************************************************************)
(* Session runner                                                          *)
(***************************************************************************)
SelectableNames == RegisteredNames \cup Range(DefaultSessions)
Selections == UNION {[1..n -> SelectableNames] : n \in 0..MaxSelected}

\* the entry point: no session name given (sel = <<>>) selects the default
\* session set; a name that is not registered aborts before any work begins
Startup(sel) ==
    /\ phase = "init"
    /\ LET asked == IF sel = <<>> THEN DefaultSessions ELSE sel
       IN  /\ noArgs' = (sel = <<>>)
           /\ names' = asked
           /\ IF \A i \in 1..Len(asked) : asked[i] \in RegisteredNames
              THEN /\ phase' = "running"
                   /\ queue' = ExpandAll(asked)
                   /\ UNCHANGED exitCode
              ELSE /\ phase' = "aborted"
                   /\ queue' = <<>>
                   /\ exitCode' = 3
    /\ UNCHANGED <<HostVars, cur, ctx, pc, idx, calls, logs, results, HelperVars>>

FirstPc(body) ==
    CASE body = "run_linter" -> "lint_install"
      [] body = "export_requirements" -> "export_install"
      [] body = "run_tests" -> "tests_install"
      [] body = "do_all_migrations" -> "migrate_install"

Result(inv, status) ==
    [name |-> inv.name, python |-> inv.python, pdm_ver |-> inv.pdm_ver,
     status |-> status]

\* a new context for the next invocation; error_on_missing_interpreters is
\* False, so an interpreter that is not installed skips the invocation
BeginSession(interp) ==
    /\ phase = "running"
    /\ pc = "idle"
    /\ queue # <<>>
    /\ interp = "missing" => Head(queue).python # DEFAULT_PYTHON
    /\ ctx' = ctx + 1
    /\ queue' = Tail(queue)
    /\ idx' = 1
    /\ IF interp = "missing"
       THEN /\ results' = Append(results, Result(Head(queue), "skipped"))
            /\ UNCHANGED <<cur, pc>>
       ELSE /\ cur' = Head(queue)
            /\ pc' = FirstPc(Head(queue).body)
            /\ UNCHANGED results
    /\ UNCHANGED <<HostVars, phase, noArgs, names, calls, logs, exitCode,
                   HelperVars>>

\* the body returned ("return") or an exception left it ("raise")
FinishSession ==
    /\ phase = "running"
    /\ pc \in {"return", "raise"}
    /\ results' = Append(results,
                     Result(cur, IF pc = "return" THEN "success" ELSE "failed"))
    /\ cur' = NoInv
    /\ pc' = "idle"
    /\ UNCHANGED <<HostVars, phase, noArgs, names, queue, ctx, idx, calls, logs,
                   exitCode, HelperVars>>

FinishRun ==
    /\ phase = "running"
    /\ pc = "idle"
    /\ queue = <<>>
    /\ phase' = "done"
    /\ exitCode' = IF \E i \in 1..Len(results) : results[i].status = "failed"
                   THEN 1 ELSE 0
    /\ UNCHANGED <<HostVars, noArgs, names, queue, cur, ctx, pc, idx, calls,
                   logs, results, HelperVars>>

(***************************************************************************)
(* Session bodies                                                          *)
(***************************************************************************)
InBody(at) == phase = "running" /\ pc = at
BodyFrame == <<HostVars, RunnerVars, HelperVars>>

\* ---- run_linter ----
LintInstall(outcome) ==
    /\ InBody("lint_install")
    /\ calls' = Append(calls, Call("install", <<"black">>, outcome))
    /\ pc' = AfterInstall(outcome, "lint_loop")
    /\ logs' = IF pc' = "lint_loop"
               THEN Append(logs, Log("info", <<"Linting code">>)) ELSE logs
    /\ UNCHANGED <<BodyFrame, idx>>

LintPath(outcome) ==
    /\ InBody("lint_loop")
    /\ idx <= Len(LINT_PATHS)
    /\ LET d == LINT_PATHS[idx]
       IN  IF ~PathExists(d)
           THEN /\ outcome = "ok"
                /\ logs' = Append(logs, Log("warning",
                               <<"Skipping lint path", d, "could not find path">>))
                /\ idx' = idx + 1
                /\ UNCHANGED <<calls, pc>>
           ELSE /\ logs' = Append(logs, Log("info", <<"Formatting", d, "with Black">>))
                /\ calls' = Append(calls, Call("run", <<"black", d>>, outcome))
                /\ pc' = AfterRun(outcome, "lint_loop")
                /\ idx' = idx + 1
    /\ UNCHANGED BodyFrame

LintNoxfile(outcome) ==
    /\ InBody("lint_loop")
    /\ idx > Len(LINT_PATHS)
    /\ logs' = Append(logs, Log("info", <<"Linting noxfile.py">>))
    /\ calls' = Append(calls, Call("run", <<"black", "noxfile.py">>, outcome))
    /\ pc' = AfterRun(outcome, "return")
    /\ UNCHANGED <<BodyFrame, idx>>

\* ---- export_requirements ----
PdmSpec(pdm_ver) == <<"pdm>=", pdm_ver>>

ExportProdArgs ==
    <<"pdm", "export", "--prod", "-o", "requirements.txt", "--without-hashes">>

ExportDevArgs_hashes == <<"pdm", "export", "-d", "-o", "requirements.dev.txt">>
ExportDevArgs ==
    <<"pdm", "export", "-d", "-o", "requirements.dev.txt", "--without-hashes">>

ExportInstall(outcome) ==
    /\ InBody("export_install")
    /\ calls' = Append(calls, Call("install", PdmSpec(cur.pdm_ver), outcome))
    /\ pc' = AfterInstall(outcome, "export_prod")
    /\ UNCHANGED <<BodyFrame, idx, logs>>

ExportProd(outcome) ==
    /\ InBody("export_prod")
    /\ logs' = Append(logs, Log("info", <<"Exporting production requirements">>))
    /\ calls' = Append(calls, Call("run", ExportProdArgs, outcome))
    /\ pc' = AfterRun(outcome, "export_dev")
    /\ UNCHANGED <<BodyFrame, idx>>

ExportDev(outcome) ==
    /\ InBody("export_dev")
    /\ logs' = Append(logs, Log("info", <<"Exporting development requirements">>))
    /\ calls' = Append(calls, Call("run", ExportDevArgs, outcome))
    /\ pc' = AfterRun(outcome, "return")
    /\ UNCHANGED <<BodyFrame, idx>>

\* ---- run_tests ----
PytestArgs ==
    <<"pdm", "run", "pytest", "-n", "auto", "--tb=auto", "-v", "-rsXxfP">>

TestsInstall(outcome) ==
    /\ InBody("tests_install")
    /\ calls' = Append(calls, Call("install", PdmSpec(cur.pdm_ver), outcome))
    /\ pc' = AfterInstall(outcome, "tests_pdm_install")
    /\ UNCHANGED <<BodyFrame, idx, logs>>

TestsPdmInstall(outcome) ==
    /\ InBody("tests_pdm_install")
    /\ calls' = Append(calls, Call("run", <<"pdm", "install">>, outcome))
    /\ pc' = AfterRun(outcome, "tests_pytest")
    /\ UNCHANGED <<BodyFrame, idx, logs>>

TestsPytest(outcome) ==
    /\ InBody("tests_pytest")
    /\ logs' = Append(logs, Log("info", <<"Running Pytest tests">>))
    /\ calls' = Append(calls, Call("run", PytestArgs, outcome))
    /\ pc' = AfterRun(outcome, "return")
    /\ UNCHANGED <<BodyFrame, idx>>

\* ---- do_all_migrations ----
MakeAllArgs == <<"python", "manage.py", "makemigrations">>
MigrateAllArgs == <<"python", "manage.py", "migrate">>
MakeAllError == <<"CommandFailed", "Unhandled exception making migrations.">>
MigrateAllError == <<"CommandFailed", "Unhandled exception while migrating models.">>

MigrateInstall(outcome) ==
    /\ InBody("migrate_install")
    /\ calls' = Append(calls, Call("install", <<"Django">>, outcome))
    /\ pc' = AfterInstall(outcome, "migrate_make")
    /\ logs' = IF pc' = "migrate_make"
               THEN Append(logs, Log("info", <<"Doing migrations">>)) ELSE logs
    /\ UNCHANGED <<BodyFrame, idx>>

MigrateMake(outcome) ==
    /\ InBody("migrate_make")
    /\ calls' = Append(calls, Call("run", MakeAllArgs, outcome))
    /\ logs' = IF outcome = "ok" THEN logs
               ELSE Append(logs, Log("error", MakeAllError))
    /\ pc' = AfterTryRun(outcome, "migrate_apply")
    /\ UNCHANGED <<BodyFrame, idx>>

MigrateApply(outcome) ==
    /\ InBody("migrate_apply")
    /\ calls' = Append(calls, Call("run", MigrateAllArgs, outcome))
    /\ logs' = IF outcome = "ok" THEN logs
               ELSE Append(logs, Log("error", MigrateAllError))
    /\ pc' = AfterTryRun(outcome, "return")
    /\ UNCHANGED <<BodyFrame, idx>>

Next ==
    \/ \E sel \in Selections : Startup(sel)
    \/ \E interp \in {"found", "missing"} : BeginSession(interp)
    \/ FinishSession
    \/ FinishRun
    \/ \E o \in Outcomes : LintInstall(o)
    \/ \E o \in Outcomes : LintPath(o)
    \/ \E o \in Outcomes : LintNoxfile(o)
    \/ \E o \in Outcomes : ExportInstall(o)
    \/ \E o \in Outcomes : ExportProd(o)
    \/ \E o \in Outcomes : ExportDev(o)
    \/ \E o \in Outcomes : TestsInstall(o)
    \/ \E o \in Outcomes : TestsPdmInstall(o)
    \/ \E o \in Outcomes : TestsPytest(o)
    \/ \E o \in Outcomes : MigrateInstall(o)
    \/ \E o \in Outcomes : MigrateMake(o)
    \/ \E o \in Outcomes : MigrateApply(o)

Spec == Init /\ [][Next]_vars

(***************************************************************************)
(* _do_migration, called by a driver with a fresh context per call         *)
(***************************************************************************)
MakeAppArgs(app) == <<"python", "manage.py", "makemigrations", app>>
MigrateAppArgs(app) == <<"python", "manage.py", "migrate", app>>
MakeAppError(app) ==
    <<"CommandFailed", "Unhandled exception making migrations for", app>>
MigrateAppError(app) ==
    <<"CommandFailed", "Unhandled exception while migrating", app>>

ReturnMakeFailed == "False"
ReturnApplyFailed_true == "True"
ReturnApplyFailed == "False"
ReturnBothOk == "True"

HelperFrame == <<HostVars, phase, noArgs, names, queue, cur, idx, results, exitCode>>

InitHelper ==
    /\ DEFAULT_PYTHON \in HostVersions
    /\ disk \in SUBSET Range(LINT_PATHS)
    /\ phase = "helper"
    /\ noArgs = FALSE
    /\ names = <<>>
    /\ queue = <<>>
    /\ cur = NoInv
    /\ ctx = 0
    /\ pc = "idle"
    /\ idx = 1
    /\ calls = <<>>
    /\ logs = <<>>
    /\ results = <<>>
    /\ exitCode = -1
    /\ app_name = "none"
    /\ ret = "none"
    /\ ncalls = 0

\* entry of _do_migration(session, app_name)
CallDoMigration(app) ==
    /\ phase = "helper"
    /\ pc \in {"idle", "return"}
    /\ ncalls < MaxHelperCalls
    /\ ncalls' = ncalls + 1
    /\ ctx' = ctx + 1
    /\ app_name' = app
    /\ ret' = "none"
    /\ logs' = Append(logs, [ctx |-> ctx + 1, level |-> "info",
                            msg |-> <<"Making migration for", app>>])
    /\ pc' = "app_make"
    /\ UNCHANGED <<HelperFrame, calls>>

DoMigrationMake(outcome) ==
    /\ phase = "helper"
    /\ pc = "app_make"
    /\ calls' = Append(calls, Call("run", MakeAppArgs(app_name), outcome))
    /\ logs' = IF outcome = "ok" THEN logs
               ELSE Append(logs, Log("error", MakeAppError(app_name)))
    /\ pc' = AfterTryRun(outcome, "app_apply")
    /\ ret' = IF pc' = "return" THEN ReturnMakeFailed ELSE ret
    /\ UNCHANGED <<HelperFrame, ctx, app_name, ncalls>>

DoMigrationApply(outcome) ==
    /\ phase = "helper"
    /\ pc = "app_apply"
    /\ calls' = Append(calls, Call("run", MigrateAppArgs(app_name), outcome))
    /\ logs' = IF outcome = "ok" THEN logs
               ELSE Append(logs, Log("error", MigrateAppError(app_name)))
    /\ pc' = AfterTryRun(outcome, "return")
    /\ ret' = IF pc' # "return" THEN ret
              ELSE IF outcome = "ok" THEN ReturnBothOk ELSE ReturnApplyFailed
    /\ UNCHANGED <<HelperFrame, ctx, app_name, ncalls>>

NextHelper ==
    \/ \E app \in AppNames : CallDoMigration(app)
    \/ \E o \in Outcomes : DoMigrationMake(o)
    \/ \E o \in Outcomes : DoMigrationApply(o)

SpecHelper == InitHelper /\ [][NextHelper]_vars

(***************************************************************************)
(* Observations used by the properties                                     *)
(***************************************************************************)
Contexts == 1..ctx
CallsOf(c) == SelectSeq(calls, LAMBDA x : x.ctx = c)
RunsOf(c) == SelectSeq(calls, LAMBDA x : x.ctx = c /\ x.kind = "run")
InstallsOf(c) == SelectSeq(calls, LAMBDA x : x.ctx = c /\ x.kind = "install")
ErrorsOf(c) == SelectSeq(logs, LAMBDA x : x.ctx = c /\ x.level = "error")
WarningsOf(c) == SelectSeq(logs, LAMBDA x : x.ctx = c /\ x.level = "warning")
Finished(c) == c <= Len(results)
NameOf(c) == IF Finished(c) THEN results[c].name ELSE cur.name
Succeeded(c) == Finished(c) /\ results[c].status = "success"
Failed(c) == Finished(c) /\ results[c].status = "failed"
\* the exception left the body of context c
Aborted(c) == IF Finished(c) THEN results[c].status = "failed" ELSE pc = "raise"
ArgsOf(s) == [i \in 1..Len(s) |-> s[i].args]
HasFailed(s, args) == \E i \in 1..Len(s) : s[i].args = args /\ s[i].outcome = "failed"
HasOk(s, args) == \E i \in 1..Len(s) : s[i].args = args /\ s[i].outcome = "ok"
Count(s, args) == Cardinality({i \in 1..Len(s) : s[i].args = args})
AllOk(s) == \A i \in 1..Len(s) : s[i].outcome = "ok"
IsPrefix(s, t) == Len(s) <= Len(t) /\ \A i \in 1..Len(s) : s[i] = t[i]
\* the value that follows the flag in an argument list, "" when absent
OptionValue(args, flag) ==
    IF \E i \in 1..(Len(args) - 1) : args[i] = flag
    THEN args[(CHOOSE i \in 1..(Len(args) - 1) : args[i] = flag) + 1]
    ELSE ""
\* every invocation of the run, in execution order
Invocations ==
    [i \in 1..Len(results) |-> [name |-> results[i].name, python |-> results[i].python,
                                pdm_ver |-> results[i].pdm_ver]]
    \o (IF cur = NoInv THEN <<>>
        ELSE <<[name |-> cur.name, python |-> cur.python, pdm_ver |-> cur.pdm_ver]>>)
    \o [i \in 1..Len(queue) |-> [name |-> queue[i].name, python |-> queue[i].python,
                                  pdm_ver |-> queue[i].pdm_ver]]
InvocationsOf(n) == SelectSeq(Invocations, LAMBDA v : v.name = n)
Asked(n) == Cardinality({i \in 1..Len(names) : names[i] = n})

(***************************************************************************)
(* Properties                                                              *)
(***************************************************************************)

\* C1: in the project-wide migrate session, a failed makemigrations command
\* means the migrate command is never invoked in that invocation; when
\* makemigrations succeeds and migrate fails, exactly one error is logged and
\* it is the one that identifies the apply failure.
C1_GenerateFailureSkipsApply ==
    \A c \in Contexts :
        NameOf(c) = "migrate" =>
            /\ HasFailed(RunsOf(c), MakeAllArgs) => Count(RunsOf(c), MigrateAllArgs) = 0
            /\ (HasOk(RunsOf(c), MakeAllArgs) /\ HasFailed(RunsOf(c), MigrateAllArgs)) =>
                   /\ Len(ErrorsOf(c)) = 1
                   /\ ErrorsOf(c)[1].msg = MigrateAllError
                   /\ MigrateAllError # MakeAllError

C1_Witness ==
    \E c \in Contexts :
        /\ Succeeded(c) /\ NameOf(c) = "migrate"
        /\ HasFailed(RunsOf(c), MakeAllArgs)
        /\ Count(RunsOf(c), MigrateAllArgs) = 0
        /\ ErrorsOf(c)[1].msg = MakeAllError

\* C2: _do_migration returns True exactly when both the makemigrations and
\* the migrate command of the app succeeded; on a failure of either it returns
\* False after logging an error that contains the app name; it does not invoke
\* migrate after a failed makemigrations; no exception reaches the caller.
C2_DoMigrationResult ==
    phase = "helper" =>
        /\ pc # "raise"
        /\ HasFailed(RunsOf(ctx), MakeAppArgs(app_name)) =>
               Count(RunsOf(ctx), MigrateAppArgs(app_name)) = 0
        /\ pc = "return" =>
               /\ ret \in {"True", "False"}
               /\ ret = "True" <=>
                      /\ HasOk(RunsOf(ctx), MakeAppArgs(app_name))
                      /\ HasOk(RunsOf(ctx), MigrateAppArgs(app_name))
               /\ ret = "False" =>
                      /\ Len(ErrorsOf(ctx)) = 1
                      /\ app_name \in Range(ErrorsOf(ctx)[1].msg)
                      /\ logs[Len(logs)] = ErrorsOf(ctx)[1]

C2_Witness ==
    /\ phase = "helper" /\ pc = "return" /\ ret = "False" /\ ncalls = 2
    /\ HasOk(RunsOf(ctx), MakeAppArgs(app_name))
    /\ HasFailed(RunsOf(ctx), MigrateAppArgs(app_name))
    /\ HasOk(RunsOf(1), MigrateAppArgs("blog"))

\* C3: every name of the default session set is the name of a registered
\* session, so a start with no session name never aborts on an unknown name.
C3_DefaultSetResolves ==
    noArgs =>
        /\ \A i \in 1..Len(names) : names[i] \in RegisteredNames
        /\ phase # "aborted"

\* C4: a failed install step leaves the session body at once: the failure is
\* not caught (also in migrate) and the invocation issues no run call at all.
C4_InstallFailureAborts ==
    \A c \in Contexts :
        (NameOf(c) \in {"lint", "export", "tests", "migrate"}
           /\ \E i \in 1..Len(InstallsOf(c)) : InstallsOf(c)[i].outcome = "failed") =>
            /\ Aborted(c)
            /\ RunsOf(c) = <<>>
            /\ Len(CallsOf(c)) = 1
            /\ ErrorsOf(c) = <<>>

C4_Witness ==
    \E c \in Contexts :
        /\ Failed(c) /\ NameOf(c) = "migrate"
        /\ InstallsOf(c)[1].outcome = "failed"
        /\ phase = "done" /\ exitCode = 1

\* C5: in lint, export and tests the first command that exits non-zero ends
\* the invocation as failed and no later command of it is issued.
C5_RunFailureAborts ==
    \A c \in Contexts :
        NameOf(c) \in {"lint", "export", "tests"} =>
            \A i \in 1..Len(CallsOf(c)) :
                CallsOf(c)[i].outcome = "failed" =>
                    /\ i = Len(CallsOf(c))
                    /\ Aborted(c)

C5_Witness ==
    \E c \in Contexts :
        /\ Failed(c) /\ NameOf(c) = "export"
        /\ HasFailed(RunsOf(c), ExportProdArgs)
        /\ Count(RunsOf(c), ExportDevArgs) = 0

\* C6: with a successful install, the body of the migrate session returns
\* normally whatever the outcomes of makemigrations and migrate are: the
\* invocation is not failed, and a run made only of such invocations exits 0.
C6_MigrateFailureNotFatal ==
    /\ \A c \in Contexts :
           (NameOf(c) = "migrate" /\ AllOk(InstallsOf(c))) =>
               /\ ~Aborted(c)
               /\ Finished(c) => results[c].status = "success"
    /\ (phase = "done"
          /\ \A c \in Contexts : NameOf(c) = "migrate" /\ AllOk(InstallsOf(c))) =>
           exitCode = 0

C6_Witness ==
    /\ phase = "done" /\ exitCode = 0 /\ ctx = 1
    /\ NameOf(1) = "migrate" /\ Succeeded(1)
    /\ HasFailed(RunsOf(1), MigrateAllArgs)

\* C7: lint issues no formatter call for a lint path missing on disk and logs
\* one warning for it, one formatter call per existing path in configured
\* order, and last one call on noxfile.py: (existing paths + 1) calls when no
\* formatter call fails.
ExistingLintPaths == SelectSeq(LINT_PATHS, LAMBDA d : d \in disk)
MissingLintPaths == SelectSeq(LINT_PATHS, LAMBDA d : d \notin disk)

C7_LintSkipsMissing ==
    \A c \in Contexts :
        NameOf(c) = "lint" =>
            /\ \A i \in 1..Len(RunsOf(c)) :
                   RunsOf(c)[i].args[2] \in disk \cup {"noxfile.py"}
            /\ IsPrefix(ArgsOf(RunsOf(c)),
                        [i \in 1..Len(ExistingLintPaths) |-> <<"black", ExistingLintPaths[i]>>]
                        \o << <<"black", "noxfile.py">> >>)
            /\ Succeeded(c) =>
                   /\ Len(RunsOf(c)) = Cardinality(disk) + 1
                   /\ RunsOf(c)[Len(RunsOf(c))].args = <<"black", "noxfile.py">>
                   /\ Len(WarningsOf(c)) = Len(MissingLintPaths)
                   /\ \A i \in 1..Len(MissingLintPaths) :
                          MissingLintPaths[i] \in Range(WarningsOf(c)[i].msg)

C7_Witness ==
    \E c \in Contexts :
        /\ Succeeded(c) /\ NameOf(c) = "lint"
        /\ disk = {"tests"}
        /\ Len(RunsOf(c)) = 2
        /\ Len(WarningsOf(c)) = 1

\* C8: in a run of the default session set every session of the set is
\* attempted, in declared order, whatever the earlier sessions did, and the
\* run exits non-zero when one of them failed.
C8_DefaultRunAttemptsAll ==
    (noArgs /\ phase \in {"done", "aborted"}) =>
        /\ \A i \in 1..Len(DefaultSessions) :
               \E c \in Contexts : Finished(c) /\ results[c].name = DefaultSessions[i]
        /\ \A c, d \in Contexts :
               (Finished(d) /\ c < d) =>
                   \E i, j \in 1..Len(DefaultSessions) :
                       /\ i <= j
                       /\ results[c].name = DefaultSessions[i]
                       /\ results[d].name = DefaultSessions[j]
        /\ (\E c \in Contexts : Failed(c)) => exitCode # 0

\* C9: tests runs once per entry of PY_VERSIONS whatever the running
\* interpreter is: k invocations, one per declared version with the declared
\* pdm_ver, each issuing the pdm install, "pdm install", then one pytest
\* command; k pytest commands when no step fails.
TestsCalls ==
    << [kind |-> "install", args |-> PdmSpec(PDM_VER)],
       [kind |-> "run", args |-> <<"pdm", "install">>],
       [kind |-> "run", args |-> PytestArgs] >>
KindArgs(s) == [i \in 1..Len(s) |-> [kind |-> s[i].kind, args |-> s[i].args]]

C10_ExportTwoInvocations ==
    /\ phase \in {"running", "done"} =>
           /\ Len(InvocationsOf("export")) = Asked("export")
           /\ \A j \in 1..Len(InvocationsOf("export")) :
                  InvocationsOf("export")[j].pdm_ver = PDM_VER
    /\ \A c \in Contexts :
           (NameOf(c) = "export" /\ Succeeded(c)) =>
               LET r == RunsOf(c)
               IN  /\ Len(r) = 2
                   /\ \A i \in 1..2 :
                          /\ r[i].args[1] = "pdm" /\ r[i].args[2] = "export"
                          /\ "--without-hashes" \in Range(r[i].args)
                   /\ "--prod" \in Range(r[1].args)
                   /\ "-d" \in Range(r[2].args)
                   /\ OptionValue(r[1].args, "-o") = "requirements.txt"
                   /\ OptionValue(r[2].args, "-o") = "requirements.dev.txt"
                   /\ OptionValue(r[1].args, "-o") # OptionValue(r[2].args, "-o")

C10_Witness ==
    \E c \in Contexts :
        /\ NameOf(c) = "export" /\ Succeeded(c)
        /\ Len(RunsOf(c)) = 2
        /\ Asked("export") = 1
        /\ phase = "done"
=============================================================================
